---- MODULE Spec2Model ----
(***************************************************************************)
(* Model of the short-lived file cache of bookstack-mcp                    *)
(* (src/src/file-cache.ts, class FileCache) together with the clock, the   *)
(* disk and the interval timer it runs against.                            *)
(*                                                                         *)
(* Every await of the source is a step boundary: cacheFile is split at     *)
(* `await fs.promises.writeFile`, getCachedFileData at                     *)
(* `await fs.promises.readFile`.  Everything else in the class is          *)
(* synchronous and is one atomic action.                                   *)
(***************************************************************************)
EXTENDS Integers, Sequences, FiniteSets

(***************************************************************************)
(* Bounds of the model.                                                    *)
(***************************************************************************)
\* number of cacheFile calls in one behaviour
MaxCalls == 2
\* number of clock ticks in one behaviour
MaxTicks == 2

(***************************************************************************)
(* Time.  Date values are milliseconds; the clock advances a minute at a   *)
(* time, so that every instant the code compares against (an expiry, a     *)
(* timer due time) is an instant the clock shows.                          *)
(***************************************************************************)
MsPerMinute == 60 * 1000
SweepPeriodMs == 60 * 1000
TickMs == MsPerMinute
MaxTime == MaxTicks * TickMs

(***************************************************************************)
(* Inputs.  A filename is a sequence of tokens; "/" and "." are the path   *)
(* separator and the dot, every other token is a run of ordinary           *)
(* characters.  A payload is a sequence of bytes.                          *)
(***************************************************************************)
Requests ==
  { [data |-> <<7, 9>>, filename |-> <<"report", ".", "pdf">>,
     mimeType |-> "application/pdf"],
    [data |-> <<>>, filename |-> <<".", ".", "/", "etc", "/", "notes", ".", "txt">>,
     mimeType |-> "text/plain"] }

\* values of cacheDurationMinutes (constructor argument, setCacheDuration argument)
Durations == {1, 2}

\* the values crypto.randomUUID() produces, and one id no call ever produces
UUIDs == 1..MaxCalls
NeverIssued == MaxCalls + 1
RequestIds == UUIDs \cup {NeverIssued}

\* the callers of getCachedFileData that can be in flight at once
Readers == {"r1"}

cacheDir == <<"/", "srv", "/", "cache">>

Null == [null |-> TRUE]

VARIABLES
  clock,                  \* what new Date() returns, in ms
  cache,                  \* this.cache: the Map, as its entries in insertion order
  disk,                   \* the file system: path -> content
  cacheDurationMinutes,   \* this.cacheDurationMinutes
  timerActive,            \* this.cleanupInterval is scheduled
  nextSweepAt,            \* due time of the next interval callback
  puts,                   \* the cacheFile calls made so far, in call order
  gets,                   \* the getCachedFileData calls, per reader
  unlinkFailed,           \* paths on which fs.unlinkSync threw
  client,                 \* the BookStackClient and BookStackTools objects and the requests sent
  sse                     \* the SSETransportServer: this.transports and the sessions' history

vars == <<clock, cache, disk, cacheDurationMinutes, timerActive, nextSweepAt,
          puts, gets, unlinkFailed, client, sse>>

(***************************************************************************)
(* Helpers on sequences.                                                   *)
(***************************************************************************)
MaxOf(S) == CHOOSE x \in S : \A y \in S : y <= x

(***************************************************************************)
(* path.extname (POSIX): the part of the last path component from its last *)
(* dot on; empty when there is no dot, when the only dot starts the        *)
(* component, or when the component is "..".                               *)
(***************************************************************************)
BaseName(f) ==
  LET seps == {i \in 1..Len(f) : f[i] = "/"}
  IN  IF seps = {} THEN f ELSE SubSeq(f, MaxOf(seps) + 1, Len(f))

ExtName(f) ==
  LET base == BaseName(f)
      dots == {i \in 1..Len(base) : base[i] = "."}
  IN  IF dots = {} THEN <<>>
      ELSE IF MaxOf(dots) = 1 \/ base = <<".", ".">> THEN <<>>
      ELSE SubSeq(base, MaxOf(dots), Len(base))

\* faulty variant: the file is named by the id followed by the whole
\* original filename
FilePathWithName(fileId, originalFilename) ==
  cacheDir \o <<"/">> \o <<fileId>> \o originalFilename

\* path.join(this.cacheDir, `${fileId}${extension}`)
FilePath(fileId, originalFilename) ==
  cacheDir \o <<"/">> \o <<fileId>> \o ExtName(originalFilename)

\* `/download/${fileId}`
DownloadUrl(fileId) == <<"/", "download", "/", fileId>>

(***************************************************************************)
(* The Map this.cache.                                                     *)
(***************************************************************************)
CacheIds(c) == {c[i].id : i \in 1..Len(c)}

CacheHas(c, id) == id \in CacheIds(c)

CacheGet(c, id) ==
  IF CacheHas(c, id) THEN c[CHOOSE i \in 1..Len(c) : c[i].id = id] ELSE Null

\* faulty variant: the Map is replaced by one holding the new entry only
CacheSetOverwriting(c, e) == <<e>>

\* Map.set (line 68)
CacheSet(c, e) ==
  IF CacheHas(c, e.id)
  THEN [i \in 1..Len(c) |-> IF c[i].id = e.id THEN e ELSE c[i]]
  ELSE Append(c, e)

CacheDelete(c, id) == SelectSeq(c, LAMBDA e : e.id # id)

(***************************************************************************)
(* The file system.                                                        *)
(***************************************************************************)
Exists(dk, p) == p \in DOMAIN dk

WriteTo(dk, p, content) ==
  [q \in DOMAIN dk \cup {p} |-> IF q = p THEN content ELSE dk[q]]

Unlink(dk, p) == [q \in DOMAIN dk \ {p} |-> dk[q]]

(***************************************************************************)
(* crypto.randomUUID(): a version-4 UUID, modelled as a value that no      *)
(* earlier call of the process returned.  Ids are opaque, so the fresh     *)
(* value is named canonically (the least unused one).                      *)
(***************************************************************************)
Generated == {puts[i].id : i \in 1..Len(puts)}

MinOf(S) == CHOOSE x \in S : \A y \in S : x <= y

\* faulty variant: the id does not depend on what was issued before
randomUUIDRepeating(used) == MinOf(UUIDs)

randomUUID(used) == MinOf(UUIDs \ used)

\* new Date(now.getTime() + (this.cacheDurationMinutes * 60 * 1000))
\* faulty variant: the duration is added as milliseconds
ExpiresAtInMinutes(now, minutes) == now + minutes

ExpiresAt(now, minutes) == now + (minutes * MsPerMinute)

\* faulty variant: the expiry instant itself counts as expired
ExpiredAtBoundary(now, e) == now >= e.expiresAt

\* faulty variant: the operands of the comparison are swapped
ExpiredSwapped(now, e) == e.expiresAt > now

\* `new Date() > cachedFile.expiresAt`
Expired(now, e) == now > e.expiresAt

\* faulty variant: the size is kept in KB, as the log line of line 70 prints it
CachedFileSizeKb(p) ==
  [id |-> p.id,
   filename |-> p.filename,
   mimeType |-> p.mimeType,
   size |-> Len(p.data) \div 1024,
   createdAt |-> p.now,
   expiresAt |-> p.expiresAt,
   filePath |-> p.filePath]

\* lines 58-66: the CachedFile registered for a call
CachedFileOf(p) ==
  [id |-> p.id,
   filename |-> p.filename,
   mimeType |-> p.mimeType,
   size |-> Len(p.data),
   createdAt |-> p.now,
   expiresAt |-> p.expiresAt,
   filePath |-> p.filePath]

\* faulty variant: the download path carries the original filename too
PutResultWithFilename(p) ==
  [id |-> p.id,
   downloadUrl |-> DownloadUrl(p.id) \o <<"/">> \o p.filename,
   expiresAt |-> p.expiresAt]

\* lines 72-76: what cacheFile returns
PutResult(p) ==
  [id |-> p.id, downloadUrl |-> DownloadUrl(p.id), expiresAt |-> p.expiresAt]

(***************************************************************************)
(* removeCachedFile (lines 121-133) on st = [cache, disk, failed, raised]:  *)
(* `fail` says whether fs.unlinkSync throws.  The index entry is deleted   *)
(* whether or not the unlink succeeded.  `raised` says whether the call    *)
(* ended with an exception.                                                *)
(***************************************************************************)
\* faulty variant: the `if (cachedFile)` guard of line 123 is missing, so
\* the call raises a TypeError for an id that is not in the Map
removeCachedFileUnguarded(st, id, fail) ==
  LET cachedFile == CacheGet(st.cache, id)
  IN  IF cachedFile = Null THEN [st EXCEPT !.raised = TRUE]
      ELSE [cache |-> CacheDelete(st.cache, id),
            disk |-> IF Exists(st.disk, cachedFile.filePath) /\ ~fail
                     THEN Unlink(st.disk, cachedFile.filePath)
                     ELSE st.disk,
            failed |-> IF Exists(st.disk, cachedFile.filePath) /\ fail
                       THEN st.failed \cup {cachedFile.filePath}
                       ELSE st.failed,
            raised |-> st.raised]

\* faulty variant: the file is unlinked but the Map entry stays
removeCachedFileKeepEntry(st, id, fail) ==
  LET cachedFile == CacheGet(st.cache, id)
  IN  IF cachedFile = Null THEN st
      ELSE [cache |-> st.cache,
            disk |-> IF Exists(st.disk, cachedFile.filePath) /\ ~fail
                     THEN Unlink(st.disk, cachedFile.filePath)
                     ELSE st.disk,
            failed |-> IF Exists(st.disk, cachedFile.filePath) /\ fail
                       THEN st.failed \cup {cachedFile.filePath}
                       ELSE st.failed,
            raised |-> st.raised]

\* faulty variant: cache.delete sits inside the try block, after unlinkSync,
\* so a failing unlink leaves the index entry in place
removeCachedFileDeleteInTry(st, id, fail) ==
  LET cachedFile == CacheGet(st.cache, id)
  IN  IF cachedFile = Null
      THEN st
      ELSE IF Exists(st.disk, cachedFile.filePath) /\ fail
      THEN [st EXCEPT !.failed = st.failed \cup {cachedFile.filePath}]
      ELSE [cache |-> CacheDelete(st.cache, id),
            disk |-> IF Exists(st.disk, cachedFile.filePath)
                     THEN Unlink(st.disk, cachedFile.filePath)
                     ELSE st.disk,
            failed |-> st.failed,
            raised |-> st.raised]

\* faulty variant: the Map entry is deleted but the file is never unlinked
removeCachedFileNoUnlink(st, id, fail) ==
  LET cachedFile == CacheGet(st.cache, id)
  IN  IF cachedFile = Null THEN st
      ELSE [cache |-> CacheDelete(st.cache, id),
            disk |-> st.disk,
            failed |-> st.failed,
            raised |-> st.raised]

\* removeCachedFile (lines 121-133); fail: unlinkSync throws
removeCachedFile(st, id, fail) ==
  LET cachedFile == CacheGet(st.cache, id)
  IN  IF cachedFile = Null THEN st
      ELSE [cache |-> CacheDelete(st.cache, id),
            disk |-> IF Exists(st.disk, cachedFile.filePath) /\ ~fail
                     THEN Unlink(st.disk, cachedFile.filePath)
                     ELSE st.disk,
            failed |-> IF Exists(st.disk, cachedFile.filePath) /\ fail
                       THEN st.failed \cup {cachedFile.filePath}
                       ELSE st.failed,
            raised |-> st.raised]

(***************************************************************************)
(* cleanupExpiredFiles (lines 138-152): a for-of over the live Map         *)
(* iterator; deleting the entry just visited leaves the iterator on the    *)
(* entry that followed it.  F is the set of ids whose unlink throws.       *)
(***************************************************************************)
RECURSIVE CleanupFrom(_, _, _, _)
CleanupFrom(st, i, now, F) ==
  IF i > Len(st.cache) THEN st
  ELSE LET cachedFile == st.cache[i]
           next == IF Expired(now, cachedFile)
                   THEN removeCachedFile(st, cachedFile.id, cachedFile.id \in F)
                   ELSE st
       IN  CleanupFrom(next, i + 1 - (Len(st.cache) - Len(next.cache)), now, F)

\* faulty variant: the loop steps over the entry that follows a removed one
RECURSIVE CleanupSkippingFrom(_, _, _, _)
CleanupSkippingFrom(st, i, now, F) ==
  IF i > Len(st.cache) THEN st
  ELSE LET cachedFile == st.cache[i]
           next == IF Expired(now, cachedFile)
                   THEN removeCachedFile(st, cachedFile.id, cachedFile.id \in F)
                   ELSE st
       IN  CleanupSkippingFrom(next, i + 1, now, F)

cleanupExpiredFilesSkipping(st, now, F) == CleanupSkippingFrom(st, 1, now, F)

\* variant: the loop also removes every entry whose file is not on disk
RECURSIVE CleanupCheckingDiskFrom(_, _, _, _)
CleanupCheckingDiskFrom(st, i, now, F) ==
  IF i > Len(st.cache) THEN st
  ELSE LET cachedFile == st.cache[i]
           next == IF \/ Expired(now, cachedFile)
                      \/ ~Exists(st.disk, cachedFile.filePath)
                   THEN removeCachedFile(st, cachedFile.id, cachedFile.id \in F)
                   ELSE st
       IN  CleanupCheckingDiskFrom(next,
                                   i + 1 - (Len(st.cache) - Len(next.cache)),
                                   now, F)

cleanupExpiredFilesCheckingDisk(st, now, F) ==
  CleanupCheckingDiskFrom(st, 1, now, F)

cleanupExpiredFiles(st, now, F) == CleanupFrom(st, 1, now, F)

(***************************************************************************)
(* destroy, lines 192-195: removeCachedFile for every key of the Map, again *)
(* over the live iterator.                                                 *)
(***************************************************************************)
RECURSIVE RemoveAllFrom(_, _, _)
RemoveAllFrom(st, i, F) ==
  IF i > Len(st.cache) THEN st
  ELSE LET id == st.cache[i].id
           next == removeCachedFile(st, id, id \in F)
       IN  RemoveAllFrom(next, i + 1 - (Len(st.cache) - Len(next.cache)), F)

\* faulty variant: the loop steps over the key that follows a removed one
RECURSIVE RemoveAllSkippingFrom(_, _, _)
RemoveAllSkippingFrom(st, i, F) ==
  IF i > Len(st.cache) THEN st
  ELSE LET id == st.cache[i].id
           next == removeCachedFile(st, id, id \in F)
       IN  RemoveAllSkippingFrom(next, i + 1, F)

removeAllCachedFilesSkipping(st, F) == RemoveAllSkippingFrom(st, 1, F)

\* the loop of destroy (lines 193-195), from the first key of the Map
removeAllCachedFiles(st, F) == RemoveAllFrom(st, 1, F)

State ==
  [cache |-> cache, disk |-> disk, failed |-> unlinkFailed, raised |-> FALSE]

\* ids whose artifact is on disk: the only ones whose unlink can throw
Unlinkable == {id \in CacheIds(cache) : Exists(disk, CacheGet(cache, id).filePath)}

\* a reader that is not inside getCachedFileData
IdleGet ==
  [pc |-> "idle", id |-> NeverIssued, file |-> Null, data |-> <<>>,
   result |-> Null, lookupAt |-> 0, found |-> FALSE, ioError |-> FALSE]

\* a reader to which getCachedFileData has returned `result`
Returned(get, result) ==
  [IdleGet EXCEPT !.pc = "returned", !.id = get.id, !.result = result,
                  !.lookupAt = get.lookupAt, !.found = get.found,
                  !.ioError = get.ioError]

(***************************************************************************)
(* BookStackClient (bookstack-client.ts) and BookStackTools                *)
(* (bookstack-tools.ts): the operations of the client, the HTTP request    *)
(* each one sends, and the tools listed.                                   *)
(***************************************************************************)
ReadOps == {"getPage", "getShelves", "getAttachment"}

WriteOps ==
  {"createPage", "updatePage", "createShelf", "updateShelf", "deleteShelf",
   "createAttachment", "updateAttachment", "deleteAttachment"}

ClientOps == ReadOps \cup WriteOps

\* the request this.client.get/post/put/delete sends for each operation
ClientRequest(op) ==
  CASE op = "getPage"          -> [method |-> "GET",    path |-> "/pages/:id"]
    [] op = "getShelves"       -> [method |-> "GET",    path |-> "/shelves"]
    [] op = "getAttachment"    -> [method |-> "GET",    path |-> "/attachments/:id"]
    [] op = "createPage"       -> [method |-> "POST",   path |-> "/pages"]
    [] op = "updatePage"       -> [method |-> "PUT",    path |-> "/pages/:id"]
    [] op = "createShelf"      -> [method |-> "POST",   path |-> "/shelves"]
    [] op = "updateShelf"      -> [method |-> "PUT",    path |-> "/shelves/:id"]
    [] op = "deleteShelf"      -> [method |-> "DELETE", path |-> "/shelves/:id"]
    [] op = "createAttachment" -> [method |-> "POST",   path |-> "/attachments"]
    [] op = "updateAttachment" -> [method |-> "PUT",    path |-> "/attachments/:id"]
    [] op = "deleteAttachment" -> [method |-> "DELETE", path |-> "/attachments/:id"]

\* faulty variant: deleteShelf has no check of this.enableWrite
GuardedButDeleteShelf == WriteOps \ {"deleteShelf"}

\* the methods that start with `if (!this.enableWrite) throw` (lines 374,
\* 386, 632, 645, 653, 706, 724, 738)
Guarded ==
  {"createPage", "updatePage", "createShelf", "updateShelf", "deleteShelf",
   "createAttachment", "updateAttachment", "deleteAttachment"}

\* bookstack-tools.ts, lines 12-373 and 375-585: the names of the tools
ReadOnlyTools ==
  {"get_capabilities", "search_content", "search_pages", "get_books",
   "get_book", "get_pages", "get_page", "get_chapters", "get_chapter",
   "export_page", "export_book", "export_chapter", "get_recent_changes",
   "get_shelves", "get_shelf", "get_attachments", "get_attachment"}

WriteTools ==
  {"create_page", "update_page", "create_shelf", "update_shelf",
   "delete_shelf", "create_attachment", "update_attachment",
   "delete_attachment"}

\* getTools (bookstack-tools.ts, line 587)
getTools(enableWrite) ==
  IF enableWrite THEN ReadOnlyTools \cup WriteTools ELSE ReadOnlyTools

NoCall == [op |-> "none", outcome |-> "none", tools |-> {}]

\* new BookStackClient(config) and new BookStackTools(client,
\* config.enableWrite) (index.ts, lines 54-73), nothing sent yet
NewClient(enableWrite) ==
  [enableWrite |-> enableWrite,
   toolsEnableWrite |-> enableWrite,
   sent |-> {},
   last |-> NoCall]

(***************************************************************************)
(* SSETransportServer (sse-transport.ts): after construction the Map       *)
(* this.transports is empty.  connecting, connected, failed and closed     *)
(* record what happened to each session.                                   *)
(***************************************************************************)
MaxSessions == 2

\* transport.sessionId of the k-th SSEServerTransport created
SessionIds == 1..MaxSessions

\* a request that carries no session id: req.query.sessionId or the
\* x-session-id header is undefined (lines 167 and 220)
NoSessionId == 0

NoResponse ==
  [route |-> "none", status |-> 0, session |-> NoSessionId,
   activeSessions |-> 0]

NewServer ==
  [transports |-> {}, connecting |-> {}, connected |-> {}, failed |-> {},
   closed |-> {}, delivered |-> {}, last |-> NoResponse]

\* the FileCache after its constructor (lines 21-36)
InitCache ==
  /\ clock = 0
  /\ cache = <<>>
  /\ disk = [p \in {} |-> <<>>]
  /\ cacheDurationMinutes \in Durations
  /\ timerActive = TRUE
  /\ nextSweepAt = SweepPeriodMs
  /\ puts = <<>>
  /\ gets = [g \in Readers |-> IdleGet]
  /\ unlinkFailed = {}

\* the server as index.ts builds it when BOOKSTACK_ENABLE_WRITE is not set
Init ==
  /\ InitCache
  /\ client = NewClient(FALSE)
  /\ sse = NewServer

\* faulty variant: the write is not awaited, the entry is registered at once
IndexBeforeWriteRegistering(c, p) == CacheSet(c, CachedFileOf(p))

\* lines 46-56: this.cache is not touched before the write has resolved
IndexBeforeWrite(c, p) == c

(***************************************************************************)
(* cacheFile, first part (lines 46-56): id, timestamps and path are        *)
(* computed and the write is issued.                                       *)
(***************************************************************************)
PutStart(r) ==
  /\ Len(puts) < MaxCalls
  /\ LET fileId == randomUUID(Generated)
         call == [pc |-> "opening",
                  id |-> fileId,
                  data |-> r.data,
                  filename |-> r.filename,
                  mimeType |-> r.mimeType,
                  now |-> clock,
                  expiresAt |-> ExpiresAt(clock, cacheDurationMinutes),
                  filePath |-> FilePath(fileId, r.filename),
                  ttl |-> cacheDurationMinutes,
                  written |-> 0,
                  writeFailed |-> FALSE,
                  ret |-> Null]
     IN  /\ puts' = Append(puts, call)
         /\ cache' = IndexBeforeWrite(cache, call)
  /\ UNCHANGED <<clock, disk, cacheDurationMinutes, timerActive,
                 nextSweepAt, gets, unlinkFailed>>
  /\ UNCHANGED <<client, sse>>

(***************************************************************************)
(* fs.promises.writeFile (line 56): the file is created (truncated), the   *)
(* bytes follow one at a time, and the promise resolves once all are       *)
(* written.                                                                *)
(***************************************************************************)
WriteOpen(i) ==
  /\ puts[i].pc = "opening"
  /\ disk' = WriteTo(disk, puts[i].filePath, <<>>)
  /\ puts' = [puts EXCEPT ![i].pc =
                IF Len(puts[i].data) = 0 THEN "written" ELSE "writing"]
  /\ UNCHANGED <<clock, cache, cacheDurationMinutes, timerActive, nextSweepAt,
                 gets, unlinkFailed>>
  /\ UNCHANGED <<client, sse>>

WriteChunk(i) ==
  /\ puts[i].pc = "writing"
  /\ LET n == puts[i].written + 1
     IN  /\ disk' = IF Exists(disk, puts[i].filePath)
                    THEN WriteTo(disk, puts[i].filePath, SubSeq(puts[i].data, 1, n))
                    ELSE disk
         /\ puts' = [puts EXCEPT ![i].written = n,
                                 ![i].pc = IF n = Len(puts[i].data)
                                           THEN "written" ELSE "writing"]
  /\ UNCHANGED <<clock, cache, cacheDurationMinutes, timerActive, nextSweepAt,
                 gets, unlinkFailed>>
  /\ UNCHANGED <<client, sse>>

\* faulty variant: the rejected write is caught and the call carries on
OnWriteErrorSwallowed == "written"

\* the await of line 56 has no catch: a rejected write ends the call
OnWriteError == "threw"

\* the write fails (ENOSPC, EACCES, EIO): what reached the disk stays there
WriteFail(i) ==
  /\ puts[i].pc \in {"opening", "writing"}
  /\ puts' = [puts EXCEPT ![i].pc = OnWriteError, ![i].writeFailed = TRUE]
  /\ UNCHANGED <<clock, cache, disk, cacheDurationMinutes, timerActive,
                 nextSweepAt, gets, unlinkFailed>>
  /\ UNCHANGED <<client, sse>>

(***************************************************************************)
(* cacheFile, second part (lines 58-76), run once the write has resolved.  *)
(***************************************************************************)
PutFinish(i) ==
  /\ puts[i].pc = "written"
  /\ cache' = CacheSet(cache, CachedFileOf(puts[i]))
  /\ puts' = [puts EXCEPT ![i].pc = "returned", ![i].ret = PutResult(puts[i])]
  /\ UNCHANGED <<clock, disk, cacheDurationMinutes, timerActive, nextSweepAt,
                 gets, unlinkFailed>>
  /\ UNCHANGED <<client, sse>>

(***************************************************************************)
(* getCachedFileData up to its await (lines 102-109), with getCachedFile   *)
(* (lines 82-96) inlined.                                                  *)
(***************************************************************************)
GetStart(g, id) ==
  /\ gets[g].pc \in {"idle", "returned", "threw"}
  /\ LET cachedFile == CacheGet(cache, id)
         started == [IdleGet EXCEPT !.id = id, !.lookupAt = clock,
                                    !.found = CacheHas(cache, id)]
     IN  IF cachedFile = Null
         THEN /\ gets' = [gets EXCEPT ![g] = Returned(started, Null)]
              /\ UNCHANGED <<cache, disk, unlinkFailed>>
         ELSE IF Expired(clock, cachedFile)
         THEN \E fail \in BOOLEAN :
                /\ fail => id \in Unlinkable
                /\ LET st == removeCachedFile(State, id, fail)
                   IN  /\ cache' = st.cache
                       /\ disk' = st.disk
                       /\ unlinkFailed' = st.failed
                       /\ gets' = [gets EXCEPT ![g] =
                                     [Returned(started, Null) EXCEPT
                                        !.pc = IF st.raised THEN "threw"
                                                            ELSE "returned"]]
         ELSE /\ gets' = [gets EXCEPT ![g] =
                            [started EXCEPT !.pc = "reading", !.file = cachedFile]]
              /\ UNCHANGED <<cache, disk, unlinkFailed>>
  /\ UNCHANGED <<clock, cacheDurationMinutes, timerActive, nextSweepAt, puts>>
  /\ UNCHANGED <<client, sse>>

(***************************************************************************)
(* fs.promises.readFile (line 109) settles: with the content of the file,  *)
(* or with an error (always when the file is not there).                   *)
(***************************************************************************)
ReadDone(g) ==
  /\ gets[g].pc = "reading"
  /\ \E ok \in BOOLEAN :
       /\ ok => Exists(disk, gets[g].file.filePath)
       /\ gets' = [gets EXCEPT ![g] =
                     IF ok
                     THEN [@ EXCEPT !.pc = "readOk",
                                    !.data = disk[gets[g].file.filePath]]
                     ELSE [@ EXCEPT !.pc = "readErr", !.ioError = TRUE]]
  /\ UNCHANGED <<clock, cache, disk, cacheDurationMinutes, timerActive,
                 nextSweepAt, puts, unlinkFailed>>
  /\ UNCHANGED <<client, sse>>

\* faulty variant: the catch block cleans up and rethrows the read error
OnReadErrorRethrown == "threw"

\* lines 111-115: the read error is caught and the call returns null
OnReadError == "returned"

(***************************************************************************)
(* getCachedFileData after its await (lines 110-115).                      *)
(***************************************************************************)
GetFinish(g) ==
  /\ gets[g].pc \in {"readOk", "readErr"}
  /\ IF gets[g].pc = "readOk"
     THEN /\ gets' = [gets EXCEPT ![g] =
                        Returned(gets[g], [data |-> gets[g].data,
                                           file |-> gets[g].file])]
          /\ UNCHANGED <<cache, disk, unlinkFailed>>
     ELSE \E fail \in BOOLEAN :
            /\ fail => gets[g].id \in Unlinkable
            /\ LET st == removeCachedFile(State, gets[g].id, fail)
               IN  /\ cache' = st.cache
                   /\ disk' = st.disk
                   /\ unlinkFailed' = st.failed
                   /\ gets' = [gets EXCEPT ![g] =
                                 [Returned(gets[g], Null) EXCEPT
                                    !.pc = IF st.raised THEN "threw"
                                                        ELSE OnReadError]]
  /\ UNCHANGED <<clock, cacheDurationMinutes, timerActive, nextSweepAt, puts>>
  /\ UNCHANGED <<client, sse>>

(***************************************************************************)
(* The interval callback of lines 31-33: cleanupExpiredFiles every         *)
(* 60 * 1000 ms while the interval is scheduled.                           *)
(***************************************************************************)
Sweep ==
  /\ timerActive
  /\ clock >= nextSweepAt
  /\ \E F \in SUBSET Unlinkable :
       /\ \A id \in F : Expired(clock, CacheGet(cache, id))
       /\ LET st == cleanupExpiredFiles(State, clock, F)
          IN  /\ cache' = st.cache
              /\ disk' = st.disk
              /\ unlinkFailed' = st.failed
  /\ nextSweepAt' = nextSweepAt + SweepPeriodMs
  /\ UNCHANGED <<clock, cacheDurationMinutes, timerActive, puts, gets>>
  /\ UNCHANGED <<client, sse>>

\* getStats, the loop of lines 162-167 from entry i on
RECURSIVE StatsFrom(_, _, _)
StatsFrom(c, i, now) ==
  IF i > Len(c)
  THEN [activeFiles |-> 0, totalSize |-> 0]
  ELSE LET rest == StatsFrom(c, i + 1, now)
       IN  IF now <= c[i].expiresAt
           THEN [activeFiles |-> rest.activeFiles + 1,
                 totalSize |-> rest.totalSize + c[i].size]
           ELSE rest

\* getStats (lines 157-174): the value returned
getStats(c, now, minutes) ==
  LET counted == StatsFrom(c, 1, now)
  IN  [totalFiles |-> counted.activeFiles,
       totalSize |-> counted.totalSize,
       cacheDurationMinutes |-> minutes]

\* a call of getStats (lines 157-174): it computes its value and assigns nothing
GetStats ==
  /\ getStats(cache, clock, cacheDurationMinutes).totalFiles <= Len(cache)
  /\ UNCHANGED vars

\* setCacheDuration (lines 179-182)
SetCacheDuration(minutes) ==
  /\ minutes # cacheDurationMinutes
  /\ cacheDurationMinutes' = minutes
  /\ UNCHANGED <<clock, cache, disk, timerActive, nextSweepAt, puts, gets,
                 unlinkFailed>>
  /\ UNCHANGED <<client, sse>>

\* destroy (lines 187-196); a call that would change nothing is left out
Destroy ==
  /\ timerActive \/ cache # <<>>
  /\ timerActive' = FALSE
  /\ \E F \in SUBSET Unlinkable :
       LET st == removeAllCachedFiles(State, F)
       IN  /\ cache' = st.cache
           /\ disk' = st.disk
           /\ unlinkFailed' = st.failed
  /\ UNCHANGED <<clock, cacheDurationMinutes, nextSweepAt, puts, gets>>
  /\ UNCHANGED <<client, sse>>

(***************************************************************************)
(* Time passes.  A scheduled interval callback runs when it is due: the    *)
(* clock does not move past the due time before the callback has run.      *)
(***************************************************************************)
Tick ==
  /\ clock + TickMs <= MaxTime
  /\ timerActive => clock < nextSweepAt
  /\ clock' = clock + TickMs
  /\ UNCHANGED <<cache, disk, cacheDurationMinutes, timerActive, nextSweepAt,
                 puts, gets, unlinkFailed>>
  /\ UNCHANGED <<client, sse>>

Next ==
  \/ \E r \in Requests : PutStart(r)
  \/ \E i \in 1..Len(puts) : WriteOpen(i)
  \/ \E i \in 1..Len(puts) : WriteChunk(i)
  \/ \E i \in 1..Len(puts) : WriteFail(i)
  \/ \E i \in 1..Len(puts) : PutFinish(i)
  \/ \E g \in Readers, id \in RequestIds : GetStart(g, id)
  \/ \E g \in Readers : ReadDone(g)
  \/ \E g \in Readers : GetFinish(g)
  \/ Sweep
  \/ \E minutes \in Durations : SetCacheDuration(minutes)
  \/ Destroy
  \/ Tick
  \/ GetStats

Spec == Init /\ [][Next]_vars

(***************************************************************************)
(* A second environment: some other process removes a file below the       *)
(* cache directory.  The cache never does this itself: every unlink of     *)
(* file-cache.ts goes through removeCachedFile (lines 121-133), which also *)
(* deletes the index entry.                                                *)
(***************************************************************************)
ExternalUnlink(p) ==
  /\ Exists(disk, p)
  /\ disk' = Unlink(disk, p)
  /\ UNCHANGED <<clock, cache, cacheDurationMinutes, timerActive, nextSweepAt,
                 puts, gets, unlinkFailed>>
  /\ UNCHANGED <<client, sse>>

NextExt ==
  \/ Next
  \/ \E p \in DOMAIN disk : ExternalUnlink(p)

SpecExt == Init /\ [][NextExt]_vars

(***************************************************************************)
(* The cache around its teardown: no cacheFile call is made once destroy   *)
(* has been called, but a call made before may still be writing.           *)
(***************************************************************************)
NextTeardown ==
  \/ \E r \in Requests : timerActive /\ PutStart(r)
  \/ \E i \in 1..Len(puts) : WriteOpen(i)
  \/ \E i \in 1..Len(puts) : WriteChunk(i)
  \/ \E i \in 1..Len(puts) : PutFinish(i)
  \/ Sweep
  \/ Destroy
  \/ Tick

SpecTeardown == Init /\ [][NextTeardown]_vars

(***************************************************************************)
(* The BookStack client on its own, built with either setting of           *)
(* BOOKSTACK_ENABLE_WRITE (index.ts, line 58).                             *)
(***************************************************************************)
InitClient ==
  /\ InitCache
  /\ \E enableWrite \in BOOLEAN : client = NewClient(enableWrite)
  /\ sse = NewServer

\* a call of one method of BookStackClient: a guarded method throws while
\* writes are disabled; otherwise the request is sent, and it succeeds or
\* axios rejects
ClientCall(op) ==
  /\ IF op \in Guarded /\ ~client.enableWrite
     THEN client' = [client EXCEPT
                       !.last = [op |-> op, outcome |-> "threw", tools |-> {}]]
     ELSE \E ok \in BOOLEAN :
            client' = [client EXCEPT
                         !.sent = @ \cup {ClientRequest(op)},
                         !.last = [op |-> op,
                                   outcome |-> IF ok THEN "returned"
                                                     ELSE "httpError",
                                   tools |-> {}]]
  /\ UNCHANGED <<clock, cache, disk, cacheDurationMinutes, timerActive,
                 nextSweepAt, puts, gets, unlinkFailed, sse>>

\* a tools/list request: BookStackTools.getTools (line 587)
ListTools ==
  /\ client' = [client EXCEPT
                  !.last = [op |-> "getTools", outcome |-> "returned",
                            tools |-> getTools(client.toolsEnableWrite)]]
  /\ UNCHANGED <<clock, cache, disk, cacheDurationMinutes, timerActive,
                 nextSweepAt, puts, gets, unlinkFailed, sse>>

NextClient ==
  \/ \E op \in ClientOps : ClientCall(op)
  \/ ListTools

SpecClient == InitClient /\ [][NextClient]_vars

(***************************************************************************)
(* The SSE transport server on its own (sse-transport.ts, lines 163-278).  *)
(***************************************************************************)
CacheAndClientUnchanged ==
  UNCHANGED <<clock, cache, disk, cacheDurationMinutes, timerActive,
              nextSweepAt, puts, gets, unlinkFailed, client>>

\* the sessions created so far
Issued == sse.connecting \cup sse.connected \cup sse.failed

Response(route, status, session) ==
  [route |-> route, status |-> status, session |-> session,
   activeSessions |-> 0]

\* GET /sse up to the await of line 207: 409 when the query names a session
\* of the map; otherwise a new transport is put into the map under its own
\* session id, its onclose is set, and server.connect is started
SseConnect(query) ==
  /\ \/ /\ query # NoSessionId
        /\ query \in sse.transports
        /\ sse' = [sse EXCEPT !.last = Response("sse", 409, query)]
     \/ /\ ~(query # NoSessionId /\ query \in sse.transports)
        /\ Cardinality(Issued) < MaxSessions
        /\ LET sessionId == Cardinality(Issued) + 1
           IN  sse' = [sse EXCEPT
                         !.transports = @ \cup {sessionId},
                         !.connecting = @ \cup {sessionId},
                         !.last = Response("sse", 0, sessionId)]
  /\ CacheAndClientUnchanged

\* server.connect(transport) rejected: the catch block of lines 210-215
\* logs and answers 500 unless the headers of the stream have gone out; it
\* does not touch this.transports
ConnectFailed(s, sessionId, headersSent) ==
  [s EXCEPT !.connecting = @ \ {sessionId},
            !.failed = @ \cup {sessionId},
            !.last = Response("sse", IF headersSent THEN 200 ELSE 500,
                              sessionId)]

\* the await of line 207 settles: server.connect resolved, or it rejected
ConnectDone(sessionId) ==
  /\ sessionId \in sse.connecting
  /\ \/ sse' = [sse EXCEPT !.connecting = @ \ {sessionId},
                           !.connected = @ \cup {sessionId},
                           !.last = Response("sse", 200, sessionId)]
     \/ \E headersSent \in BOOLEAN :
          sse' = ConnectFailed(sse, sessionId, headersSent)
  /\ CacheAndClientUnchanged

\* transport.onclose (lines 202-205)
OnClose(s, sessionId) ==
  [s EXCEPT !.transports = @ \ {sessionId},
            !.closed = @ \cup {sessionId}]

\* the stream of a connected session closes and the transport calls onclose
TransportClose(sessionId) ==
  /\ sessionId \in sse.connected \ sse.closed
  /\ sse' = OnClose(sse, sessionId)
  /\ CacheAndClientUnchanged

\* POST /message (lines 218-240)
PostMessage(sessionId) ==
  /\ IF sessionId = NoSessionId
     THEN sse' = [sse EXCEPT !.last = Response("message", 400, sessionId)]
     ELSE IF sessionId \notin sse.transports
     THEN sse' = [sse EXCEPT !.last = Response("message", 404, sessionId)]
     ELSE \/ sse' = [sse EXCEPT
                       !.delivered = @ \cup {sessionId},
                       !.last = Response("message", 200, sessionId)]
          \/ sse' = [sse EXCEPT !.last = Response("message", 500, sessionId)]
  /\ CacheAndClientUnchanged

\* GET /health (lines 272-278)
Health ==
  /\ sse' = [sse EXCEPT
               !.last = [route |-> "health", status |-> 200,
                         session |-> NoSessionId,
                         activeSessions |-> Cardinality(sse.transports)]]
  /\ CacheAndClientUnchanged

NextSse ==
  \/ \E query \in {NoSessionId} \cup SessionIds : SseConnect(query)
  \/ \E sessionId \in SessionIds : ConnectDone(sessionId)
  \/ \E sessionId \in SessionIds : TransportClose(sessionId)
  \/ \E sessionId \in {NoSessionId} \cup SessionIds : PostMessage(sessionId)
  \/ Health

SpecSse == Init /\ [][NextSse]_vars

(***************************************************************************)
(* cacheFile alone, called with a wider choice of original filenames:      *)
(* plain, with directory components, with several dots, with a leading or  *)
(* a trailing dot, with a dot in a directory name only.                    *)
(***************************************************************************)
Filenames ==
  { <<"report", ".", "pdf">>,
    <<".", ".", "/", "etc", "/", "notes", ".", "txt">>,
    <<"/", "etc", "/", "passwd">>,
    <<"archive", ".", "tar", ".", "gz">>,
    <<".", "bashrc">>,
    <<"name", ".">>,
    <<"dir", ".", "d", "/", "readme">>,
    <<".", ".">> }

PathRequests ==
  { [data |-> <<7>>, filename |-> f, mimeType |-> "application/octet-stream"] :
      f \in Filenames }

NextPaths ==
  \/ \E r \in PathRequests : PutStart(r)
  \/ \E i \in 1..Len(puts) : WriteOpen(i)
  \/ \E i \in 1..Len(puts) : WriteChunk(i)
  \/ \E i \in 1..Len(puts) : PutFinish(i)

SpecPaths == Init /\ [][NextPaths]_vars

(***************************************************************************)
(* The cache with no reader: puts, the interval callback and the clock.    *)
(* setInterval (lines 31-33) runs the callback whenever it is due, and     *)
(* time passes: weak fairness of Sweep and of Tick.                        *)
(***************************************************************************)
NextNoGet ==
  \/ \E r \in Requests : PutStart(r)
  \/ \E i \in 1..Len(puts) : WriteOpen(i)
  \/ \E i \in 1..Len(puts) : WriteChunk(i)
  \/ \E i \in 1..Len(puts) : WriteFail(i)
  \/ \E i \in 1..Len(puts) : PutFinish(i)
  \/ Sweep
  \/ \E minutes \in Durations : SetCacheDuration(minutes)
  \/ Destroy
  \/ Tick

SpecNoGet == Init /\ [][NextNoGet]_vars /\ WF_vars(Sweep) /\ WF_vars(Tick)

(***************************************************************************)
(* Properties.                                                             *)
(***************************************************************************)
Calls == 1..Len(puts)

\* the instant T + t of a call: its start time plus the duration configured then
Deadline(p) == p.now + p.ttl * MsPerMinute

\* reader g has its answer for the id that call i generated
AnsweredFor(g, i) == gets[g].pc = "returned" /\ gets[g].id = puts[i].id

\* C1: a get issued once cacheFile(d, f, m) has registered its entry, not
\* later than the expiry and with no failing read, returns d and an entry
\* with size = len(d), mimeType = m, filename = f; cacheFile returned the id.
C1_RoundTrip ==
  \A g \in Readers, i \in Calls :
    ( /\ AnsweredFor(g, i)
      /\ Len(puts[i].data) > 0
      /\ gets[g].found
      /\ gets[g].lookupAt <= puts[i].expiresAt
      /\ ~gets[g].ioError )
    => /\ puts[i].ret # Null
       /\ puts[i].ret.id = puts[i].id
       /\ gets[g].result # Null
       /\ gets[g].result.data = puts[i].data
       /\ gets[g].result.file.size = Len(puts[i].data)
       /\ gets[g].result.file.mimeType = puts[i].mimeType
       /\ gets[g].result.file.filename = puts[i].filename

C1_Witness ==
  \E g \in Readers, i \in Calls :
    /\ AnsweredFor(g, i)
    /\ Len(puts[i].data) > 0
    /\ gets[g].result # Null
    /\ gets[g].result.data = puts[i].data
    /\ gets[g].lookupAt = puts[i].now

\* C2 as claimed: a fetch at T' < T + t returns the payload, a fetch at
\* T' >= T + t returns Absent (for a non-empty payload and a fetch that finds
\* the entry registered and whose read does not fail).
C2_Original ==
  \A g \in Readers, i \in Calls :
    ( /\ AnsweredFor(g, i) /\ gets[g].found /\ ~gets[g].ioError
      /\ Len(puts[i].data) > 0 )
    => /\ gets[g].lookupAt < Deadline(puts[i])
            => (gets[g].result # Null /\ gets[g].result.data = puts[i].data)
       /\ gets[g].lookupAt >= Deadline(puts[i]) => gets[g].result = Null

\* C2 amended: a fetch at T' <= T + t returns the payload, a fetch at
\* T' > T + t returns Absent: the instant T + t itself is still served.
C2_ExpiryBoundary ==
  \A g \in Readers, i \in Calls :
    (AnsweredFor(g, i) /\ gets[g].found /\ ~gets[g].ioError)
    => /\ gets[g].lookupAt <= Deadline(puts[i])
            => (gets[g].result # Null /\ gets[g].result.data = puts[i].data)
       /\ gets[g].lookupAt > Deadline(puts[i]) => gets[g].result = Null

C2_Witness ==
  \E g \in Readers, i \in Calls :
    /\ AnsweredFor(g, i)
    /\ gets[g].lookupAt = Deadline(puts[i])
    /\ gets[g].result # Null

\* C3 as claimed: no payload (of a non-empty entry) is returned at a moment
\* at which the entry's expiresAt has already passed.
C3_Original ==
  [][\A g \in Readers :
       (gets[g].pc = "readOk" /\ gets'[g].pc = "returned"
          /\ gets'[g].result # Null /\ gets[g].file.size > 0)
       => ~(clock' > gets'[g].result.file.expiresAt)]_vars

\* C3 amended: a payload is returned only for an entry that was unexpired
\* when the index was looked up and whose artifact was read from disk; the
\* expiry is not checked again when the read completes.
C3_NotExpiredAtLookup ==
  \A g \in Readers :
    /\ gets[g].pc \in {"reading", "readOk", "readErr"}
         => gets[g].lookupAt <= gets[g].file.expiresAt
    /\ (gets[g].pc = "returned" /\ gets[g].result # Null)
         => /\ gets[g].lookupAt <= gets[g].result.file.expiresAt
            /\ ~gets[g].ioError

C3_Witness ==
  \E g \in Readers :
    /\ gets[g].pc = "returned"
    /\ gets[g].result # Null
    /\ clock > gets[g].result.file.expiresAt

\* a step of the interval callback
SweepStep == nextSweepAt' # nextSweepAt

\* C4 as claimed: after a sweep, no (non-empty) entry that was expired when
\* the sweep started is in the index, and none of their artifacts is on disk.
C4_Original ==
  [][SweepStep =>
       \A k \in 1..Len(cache) :
         (clock > cache[k].expiresAt /\ cache[k].size > 0)
         => /\ ~CacheHas(cache', cache[k].id)
            /\ ~Exists(disk', cache[k].filePath)]_vars

\* C4 amended: after a sweep, no entry that was expired when the sweep
\* started is in the index, and the artifact of each of them is gone from
\* disk unless its unlink failed.
C4_SweepReclaims ==
  [][SweepStep =>
       \A k \in 1..Len(cache) :
         clock > cache[k].expiresAt
         => /\ ~CacheHas(cache', cache[k].id)
            /\ Exists(disk', cache[k].filePath)
                 => cache[k].filePath \in unlinkFailed']_vars

\* two entries were registered, no get was ever issued, destroy was never
\* called, and both entries and both artifacts are gone: one sweep took both
C4_Witness ==
  /\ timerActive
  /\ \A g \in Readers : gets[g].pc = "idle"
  /\ Len(puts) > 1
  /\ \A i \in Calls : puts[i].pc = "returned" /\ ~Exists(disk, puts[i].filePath)
  /\ cache = <<>>

\* C5 as claimed: a cacheFile call with zero-length data never returns,
\* registers no entry and leaves no file.
C5_EmptyPayloadRejected ==
  \A i \in Calls :
    Len(puts[i].data) = 0
    => /\ puts[i].pc # "returned"
       /\ ~CacheHas(cache, puts[i].id)
       /\ ~Exists(disk, puts[i].filePath)

\* C6: a cacheFile call whose disk write failed has thrown, and no entry for
\* its id is in the index, then or later.
C6_WriteFailureRegistersNothing ==
  \A i \in Calls :
    puts[i].writeFailed
    => /\ puts[i].pc = "threw"
       /\ puts[i].ret = Null
       /\ ~CacheHas(cache, puts[i].id)

C6_Witness ==
  \E i \in Calls :
    /\ puts[i].writeFailed
    /\ puts[i].written > 0
    /\ cache # <<>>

\* C7 as claimed: after a failed disk write neither an index entry nor a
\* file for the generated id remains.
C7_NoPartialState ==
  \A i \in Calls :
    puts[i].writeFailed
    => /\ ~CacheHas(cache, puts[i].id)
       /\ ~Exists(disk, puts[i].filePath)

\* C8: every entry of the index whose expiresAt has not passed has its
\* artifact on disk at filePath, completely written.
C8_IndexDiskLockStep ==
  \A k \in 1..Len(cache) :
    clock <= cache[k].expiresAt
    => /\ Exists(disk, cache[k].filePath)
       /\ Len(disk[cache[k].filePath]) = cache[k].size

C8_Witness ==
  /\ \E k \in 1..Len(cache) :
       clock <= cache[k].expiresAt /\ Exists(disk, cache[k].filePath)
  /\ \E i \in Calls : puts[i].pc = "returned" /\ ~CacheHas(cache, puts[i].id)

C10_Original ==
  \A g \in Readers, i \in Calls :
    ( /\ AnsweredFor(g, i) /\ gets[g].found
      /\ gets[g].lookupAt > puts[i].expiresAt
      /\ Len(puts[i].data) > 0 )
    => /\ gets[g].result = Null
       /\ ~CacheHas(cache, puts[i].id)
       /\ ~Exists(disk, puts[i].filePath)

\* C10 amended: a get that finds its id in the index with now > expiresAt
\* returns Absent and has removed the index entry, and the artifact too
\* unless its unlink failed.
C10_ExpiredReadPurges ==
  \A g \in Readers, i \in Calls :
    (AnsweredFor(g, i) /\ gets[g].found /\ gets[g].lookupAt > puts[i].expiresAt)
    => /\ gets[g].result = Null
       /\ ~CacheHas(cache, puts[i].id)
       /\ Exists(disk, puts[i].filePath) => puts[i].filePath \in unlinkFailed

C10_Witness ==
  \E g \in Readers, i \in Calls :
    /\ AnsweredFor(g, i)
    /\ gets[g].found
    /\ gets[g].lookupAt > puts[i].expiresAt
    /\ gets[g].result = Null
    /\ ~Exists(disk, puts[i].filePath)
    /\ timerActive
    /\ nextSweepAt > clock

\* reader g's call is over: it returned a value or raised
Finished(g) == gets[g].pc \in {"returned", "threw"}

\* C11: a getCachedFileData call that found an unexpired entry and whose
\* read failed returns Absent (it raises nothing, whether or not the unlink
\* of its purge failed too) and has removed the entry from the index.
C11_ReadFailureSelfHeals ==
  \A g \in Readers :
    (Finished(g) /\ gets[g].ioError)
    => /\ gets[g].pc = "returned"
       /\ gets[g].result = Null
       /\ ~CacheHas(cache, gets[g].id)

\* the read of an unexpired entry failed, the unlink of the purge failed as
\* well (the file is still there), and the call is over
C11_Witness ==
  \E g \in Readers, i \in Calls :
    /\ Finished(g) /\ gets[g].id = puts[i].id
    /\ gets[g].ioError
    /\ gets[g].found
    /\ gets[g].lookupAt <= puts[i].expiresAt
    /\ Exists(disk, puts[i].filePath)
    /\ puts[i].filePath \in unlinkFailed

\* C12: a sweep during which the unlink of at least one expired entry fails
\* still completes, removes every expired entry from the index (the failing
\* ones included), deletes the artifact of each expired entry whose unlink
\* did not fail, and leaves every unexpired entry in the index.
C12_SweepFailureIsolated ==
  [][(SweepStep /\ unlinkFailed' # unlinkFailed) =>
       /\ nextSweepAt' = nextSweepAt + SweepPeriodMs
       /\ \A k \in 1..Len(cache) :
            IF clock > cache[k].expiresAt
            THEN /\ ~CacheHas(cache', cache[k].id)
                 /\ cache[k].filePath \notin unlinkFailed'
                      => ~Exists(disk', cache[k].filePath)
            ELSE CacheGet(cache', cache[k].id) = cache[k]]_vars

\* no get and no destroy ever ran, two entries were registered and both
\* are out of the index; the unlink of one failed (its file is still on
\* disk) and the artifact of the other is gone
C12_Witness ==
  /\ timerActive
  /\ \A g \in Readers : gets[g].pc = "idle"
  /\ Len(puts) > 1
  /\ \A i \in Calls : puts[i].pc = "returned"
  /\ cache = <<>>
  /\ \E i, j \in Calls :
       /\ Exists(disk, puts[i].filePath)
       /\ puts[i].filePath \in unlinkFailed
       /\ ~Exists(disk, puts[j].filePath)
       /\ puts[j].filePath \notin unlinkFailed
       /\ puts[i].expiresAt = puts[j].expiresAt

\* an index entry that is not live: its expiry has passed or its artifact
\* is not on disk
NonLive(e) == clock > e.expiresAt \/ ~Exists(disk, e.filePath)

\* while the interval is scheduled, the next sweep is never overdue and never
\* more than one period away
SweepPunctual ==
  timerActive => (clock <= nextSweepAt /\ nextSweepAt <= clock + SweepPeriodMs)

\* C13 as claimed: sweeps are at most one period apart and a sweep removes
\* from the index every entry that is not live when it runs, whether expired
\* or without its artifact, so that such an entry is gone within one sweep
\* period with no get issued for it.
C13_Original ==
  [][/\ SweepPunctual
     /\ SweepStep =>
          \A k \in 1..Len(cache) :
            (NonLive(cache[k]) /\ cache[k].size > 0)
            => ~CacheHas(cache', cache[k].id)]_vars

\* C13 amended: sweeps are at most one period apart, a sweep removes from
\* the index every entry whose expiry has passed, and it leaves every
\* unexpired entry as it is, the ones whose artifact is missing included.
C13_ExpiredPurgedBySweep ==
  [][/\ SweepPunctual
     /\ SweepStep =>
          \A k \in 1..Len(cache) :
            IF clock > cache[k].expiresAt
            THEN ~CacheHas(cache', cache[k].id)
            ELSE CacheGet(cache', cache[k].id) = cache[k]]_vars

\* with no get and no destroy ever run, a sweep has run at this instant, one
\* entry is out of the index, and another, unexpired, is still in the index
\* although its artifact is not on disk
C13_Witness ==
  /\ timerActive
  /\ \A g \in Readers : gets[g].pc = "idle"
  /\ nextSweepAt = clock + SweepPeriodMs
  /\ clock > 0
  /\ \E i, j \in Calls :
       /\ puts[i].pc = "returned"
       /\ ~CacheHas(cache, puts[i].id)
       /\ clock > puts[i].expiresAt
       /\ CacheHas(cache, puts[j].id)
       /\ clock <= puts[j].expiresAt
       /\ ~Exists(disk, puts[j].filePath)

\* the entry of call i is in the index, and its expiry and the present
\* instant lie before the last instant of the clock
RegisteredBeforeHorizon(i) ==
  /\ i <= Len(puts)
  /\ CacheHas(cache, puts[i].id)
  /\ puts[i].expiresAt < MaxTime
  /\ clock < MaxTime

\* the interval has been cleared by destroy
TornDown == ~timerActive

\* the entry of call i is out of the index and its artifact is off the disk
Reclaimed(i) ==
  /\ i <= Len(puts)
  /\ ~CacheHas(cache, puts[i].id)
  /\ ~Exists(disk, puts[i].filePath)

\* the entry of call i is out of the index, and its artifact is off the disk
\* unless the unlink of it failed
ReclaimedUnlessUnlinkFailed(i) ==
  /\ i <= Len(puts)
  /\ ~CacheHas(cache, puts[i].id)
  /\ Exists(disk, puts[i].filePath) => puts[i].filePath \in unlinkFailed

\* C14 as claimed: with the sweeper and the clock scheduled fairly and no get
\* ever issued, every registered entry is eventually out of the index with
\* its artifact deleted, unless the cache is torn down first.
C14_Original ==
  \A i \in 1..MaxCalls :
    (RegisteredBeforeHorizon(i) /\ Len(puts[i].data) > 0)
      ~> (TornDown \/ Reclaimed(i))

\* C14 amended: with the sweeper and the clock scheduled fairly and no get
\* ever issued, every registered entry is eventually out of the index, and
\* its artifact deleted unless the unlink of it failed, unless the cache is
\* torn down first.
C14_EventuallyPurged ==
  \A i \in 1..MaxCalls :
    RegisteredBeforeHorizon(i) ~> (TornDown \/ ReclaimedUnlessUnlinkFailed(i))

\* at the last instant, with the interval still scheduled, one registered
\* entry is out of the index with its artifact deleted and another is out of
\* the index with its artifact left behind by a failed unlink
C14_Witness ==
  /\ timerActive
  /\ clock = MaxTime
  /\ \E i, j \in Calls :
       /\ puts[i].pc = "returned" /\ Reclaimed(i)
       /\ puts[j].pc = "returned"
       /\ ~CacheHas(cache, puts[j].id)
       /\ Exists(disk, puts[j].filePath)
       /\ puts[j].filePath \in unlinkFailed

\* call i returns in this step
PutReturns(i) == puts[i].pc = "written" /\ puts'[i].pc = "returned"

\* C15 as claimed: at the instant cacheFile returns, whatever time the
\* write took, with no teardown and no disk failure so far, the entry is
\* live: it is in the index, its artifact is on disk and its expiry has not
\* passed.
C15_LiveAtReturn ==
  [][\A i \in Calls :
       ( /\ PutReturns(i) /\ Len(puts[i].data) > 0
         /\ timerActive /\ unlinkFailed = {}
         /\ \A j \in Calls : ~puts[j].writeFailed )
       => /\ CacheHas(cache', puts[i].id)
          /\ Exists(disk', puts[i].filePath)
          /\ clock' <= puts[i].expiresAt]_vars

\* reader g is past its lookup, which found the entry of call i
HoldsEntryOf(g, i) ==
  /\ gets[g].pc \in {"reading", "readOk", "readErr", "returned", "threw"}
  /\ gets[g].id = puts[i].id
  /\ gets[g].found

\* C16: an entry is in the index only once its write has completed and its
\* cacheFile has gone on to register it, the file of an indexed entry holds
\* the whole payload, and a get that found the entry has read, and returns,
\* either the whole payload given to cacheFile or Absent.
C16_NoPartialFileObservable ==
  /\ \A i \in Calls :
       CacheHas(cache, puts[i].id)
       => /\ puts[i].pc = "returned"
          /\ puts[i].written = Len(puts[i].data)
          /\ Exists(disk, puts[i].filePath)
               => disk[puts[i].filePath] = puts[i].data
  /\ \A g \in Readers, i \in Calls :
       HoldsEntryOf(g, i)
       => /\ puts[i].pc = "returned"
          /\ gets[g].pc = "readOk" => gets[g].data = puts[i].data
          /\ gets[g].pc = "returned"
               => \/ gets[g].result = Null
                  \/ gets[g].result.data = puts[i].data

\* a get of the id of call i, looked up after the call had started, found
\* no entry and returned Absent; the file of the call is on disk with only
\* a part of the payload in it
C16_Witness ==
  \E g \in Readers, i \in Calls :
    /\ AnsweredFor(g, i)
    /\ ~gets[g].found
    /\ gets[g].result = Null
    /\ gets[g].lookupAt > puts[i].now
    /\ puts[i].pc = "writing"
    /\ Exists(disk, puts[i].filePath)
    /\ Len(disk[puts[i].filePath]) > 0
    /\ Len(disk[puts[i].filePath]) < Len(puts[i].data)

\* C17: a getCachedFileData call whose entry has been deleted since its
\* lookup raises nothing, has read the whole original payload if its read
\* succeeded, and returns that payload with the entry's metadata or Absent;
\* a call that finds no entry for an id whose cacheFile has returned (the
\* entry was deleted before) returns Absent.
C17_DeleteDuringRead ==
  \A g \in Readers, i \in Calls :
    /\ (HoldsEntryOf(g, i) /\ ~CacheHas(cache, puts[i].id))
       => /\ gets[g].pc # "threw"
          /\ gets[g].pc = "readOk" => gets[g].data = puts[i].data
          /\ gets[g].pc = "returned"
               => \/ gets[g].result = Null
                  \/ /\ gets[g].result.data = puts[i].data
                     /\ gets[g].result.file.id = puts[i].id
                     /\ gets[g].result.file.size = Len(puts[i].data)
    /\ ( /\ Finished(g) /\ gets[g].id = puts[i].id
         /\ ~gets[g].found
         /\ puts[i].pc = "returned" )
       => (gets[g].pc = "returned" /\ gets[g].result = Null)

\* with the interval still scheduled, a read that started on an unexpired
\* entry has the whole payload in hand and has not returned yet, while the
\* entry is already out of the index and its file off the disk
C17_Witness ==
  \E g \in Readers, i \in Calls :
    /\ HoldsEntryOf(g, i)
    /\ gets[g].pc = "readOk"
    /\ gets[g].data = puts[i].data
    /\ Len(puts[i].data) > 0
    /\ timerActive
    /\ ~CacheHas(cache, puts[i].id)
    /\ ~Exists(disk, puts[i].filePath)

\* this step is a destroy: it alone changes the index or the disk and
\* nothing else
DestroyStep ==
  /\ ~timerActive'
  /\ UNCHANGED <<clock, cacheDurationMinutes, nextSweepAt, puts, gets>>

\* this step is one of the purges the code has for entry e: a sweep or a
\* lookup that finds it expired, the end of a get of it whose read failed,
\* or destroy
PurgeOf(e) ==
  \/ SweepStep /\ clock > e.expiresAt
  \/ \E g \in Readers :
       /\ gets'[g] # gets[g]
       /\ gets[g].pc \in {"idle", "returned", "threw"}
       /\ gets'[g].id = e.id
       /\ clock > e.expiresAt
  \/ \E g \in Readers :
       /\ gets[g].pc = "readErr"
       /\ gets[g].id = e.id
       /\ gets'[g].pc \in {"returned", "threw"}
  \/ DestroyStep

\* C18: in every step, a cacheFile that returns has its entry in the index
\* with its own metadata; every entry that was in the index is still there,
\* unchanged, unless the step is a purge of that entry; and the purge at the
\* end of a failed read whose entry is already out of the index changes
\* neither the index nor the disk and returns Absent without raising.
C18_IndexUpdatesSerialized ==
  [][/\ \A i \in Calls :
          PutReturns(i)
          => /\ CacheHas(cache', puts[i].id)
             /\ CacheGet(cache', puts[i].id).filename = puts[i].filename
             /\ CacheGet(cache', puts[i].id).mimeType = puts[i].mimeType
             /\ CacheGet(cache', puts[i].id).size = Len(puts[i].data)
             /\ CacheGet(cache', puts[i].id).createdAt = puts[i].now
             /\ CacheGet(cache', puts[i].id).expiresAt = puts[i].expiresAt
             /\ CacheGet(cache', puts[i].id).filePath = puts[i].filePath
     /\ \A k \in 1..Len(cache) :
          IF CacheHas(cache', cache[k].id)
          THEN CacheGet(cache', cache[k].id) = cache[k]
          ELSE PurgeOf(cache[k])
     /\ \A g \in Readers :
          ( /\ gets[g].pc = "readErr"
            /\ ~CacheHas(cache, gets[g].id)
            /\ gets'[g].pc # "readErr" )
          => /\ UNCHANGED <<cache, disk, unlinkFailed>>
             /\ gets'[g].pc = "returned"
             /\ gets'[g].result = Null]_vars

\* both calls of cacheFile have returned; the entry of one is in the index,
\* the entry of the other has been purged while a get of it was in flight,
\* and that get, whose read failed, is about to purge it a second time
C18_Witness ==
  \E g \in Readers, i, j \in Calls :
    /\ HoldsEntryOf(g, i)
    /\ gets[g].pc = "readErr"
    /\ ~CacheHas(cache, puts[i].id)
    /\ puts[j].pc = "returned"
    /\ CacheHas(cache, puts[j].id)

\* where the id of call p stands, given index c and time now
EntryState(c, now, p) ==
  IF CacheHas(c, p.id)
  THEN IF now <= CacheGet(c, p.id).expiresAt THEN "Live" ELSE "Expired"
  ELSE IF p.pc = "returned" THEN "Purged" ELSE "Unregistered"

\* the moves of one id; an id enters the index as Live, or as Expired when
\* its write outlasted its duration
EntryMoves ==
  { <<"Unregistered", "Live">>, <<"Unregistered", "Expired">>,
    <<"Live", "Expired">>, <<"Live", "Purged">>, <<"Expired", "Purged">> }

\* C19: in every step each id keeps its state or moves Live -> Expired,
\* Live -> Purged or Expired -> Purged (or enters the index); so a purged id
\* stays purged and an expired one never becomes live again; a get started
\* on a purged id returns Absent; and no two calls are given the same id.
C19_EntryStateMachine ==
  [][/\ \A i \in Calls :
          LET before == EntryState(cache, clock, puts[i])
              after == EntryState(cache', clock', puts'[i])
          IN  /\ before = after \/ <<before, after>> \in EntryMoves
              /\ \A g \in Readers :
                   ( /\ before = "Purged"
                     /\ gets'[g] # gets[g]
                     /\ gets[g].pc \in {"idle", "returned", "threw"}
                     /\ gets'[g].id = puts[i].id )
                   => (gets'[g].pc = "returned" /\ gets'[g].result = Null)
     /\ \A i, j \in 1..Len(puts') :
          i # j => puts'[i].id # puts'[j].id]_vars

\* one id was purged while unexpired and is still unexpired now; another
\* was found expired by a get, which purged it
C19_Witness ==
  \E g \in Readers, i, j \in Calls :
    /\ EntryState(cache, clock, puts[i]) = "Purged"
    /\ clock <= puts[i].expiresAt
    /\ AnsweredFor(g, j)
    /\ gets[g].found
    /\ gets[g].lookupAt > puts[j].expiresAt
    /\ EntryState(cache, clock, puts[j]) = "Purged"

\* C20: after every step, each entry of the index belongs to one call of
\* cacheFile, with createdAt the start of that call and expiresAt =
\* createdAt + the duration configured at that start; and every entry that
\* is in the index before and after the step has all its fields unchanged.
C20_ExpiryFixedAtStore ==
  [][/\ \A k \in 1..Len(cache') :
          \E i \in 1..Len(puts') :
            /\ puts'[i].id = cache'[k].id
            /\ cache'[k].createdAt = puts'[i].now
            /\ cache'[k].expiresAt =
                 cache'[k].createdAt + puts'[i].ttl * MsPerMinute
     /\ \A k \in 1..Len(cache) :
          CacheHas(cache', cache[k].id)
          => CacheGet(cache', cache[k].id) = cache[k]]_vars

\* two entries are in the index, stored under different durations, and the
\* expiry of each is its own start plus its own duration
C20_Witness ==
  \E i, j \in Calls :
    /\ CacheHas(cache, puts[i].id)
    /\ CacheHas(cache, puts[j].id)
    /\ puts[i].ttl # puts[j].ttl
    /\ puts[i].ttl # cacheDurationMinutes
    /\ CacheGet(cache, puts[i].id).expiresAt =
         puts[i].now + puts[i].ttl * MsPerMinute
    /\ CacheGet(cache, puts[j].id).expiresAt =
         puts[j].now + puts[j].ttl * MsPerMinute

\* C21: a destroy leaves the interval cleared and the index empty, and the
\* artifact of every entry that was in the index is off the disk unless its
\* unlink failed; once the interval is cleared no sweep runs and the
\* interval is never scheduled again.
C21_TeardownPurges ==
  [][/\ DestroyStep
          => /\ cache' = <<>>
             /\ \A k \in 1..Len(cache) :
                  Exists(disk', cache[k].filePath)
                  => cache[k].filePath \in unlinkFailed'
     /\ ~timerActive => (~SweepStep /\ ~timerActive')]_vars

\* before any time has passed and with no get issued, two registered
\* entries are out of the index and the interval is cleared: destroy took
\* both, deleting the artifact of one and failing to unlink the other
C21_Witness ==
  /\ ~timerActive
  /\ clock = 0
  /\ \A g \in Readers : gets[g].pc = "idle"
  /\ cache = <<>>
  /\ \E i, j \in Calls :
       /\ puts[i].pc = "returned" /\ puts[j].pc = "returned"
       /\ ~Exists(disk, puts[i].filePath)
       /\ Exists(disk, puts[j].filePath)
       /\ puts[j].filePath \in unlinkFailed

\* reader g starts a call in this step
GetStarts(g) ==
  /\ gets[g].pc \in {"idle", "returned", "threw"}
  /\ gets'[g] # gets[g]

\* no call of cacheFile has returned id
NeverReturned(id) == \A i \in Calls : puts[i].id = id => puts[i].pc # "returned"

\* C22: a get of an id that no cacheFile call has returned so far (never
\* generated, or generated by a call still writing or failed) returns Absent
\* at once and changes neither the index nor the disk.
C22_NeverIssuedAbsent ==
  [][\A g \in Readers :
       (GetStarts(g) /\ NeverReturned(gets'[g].id))
       => /\ gets'[g].pc = "returned"
          /\ gets'[g].result = Null
          /\ UNCHANGED <<cache, disk, unlinkFailed>>]_vars

\* a get of the id that is never generated has returned Absent while the
\* index holds an entry and its file is on disk
C22_Witness ==
  \E g \in Readers :
    /\ gets[g].pc = "returned"
    /\ gets[g].id = NeverIssued
    /\ gets[g].result = Null
    /\ cache # <<>>
    /\ \A k \in 1..Len(cache) : Exists(disk, cache[k].filePath)

(***************************************************************************)
(* GET /download/:fileId (sse-transport.ts, lines 243-270): the response   *)
(* the route sends for the outcome of its getCachedFileData call.          *)
(***************************************************************************)
NotFoundResponse == [status |-> 404, body |-> "File not found or expired"]

DownloadResponse(get) ==
  IF get.pc = "threw"
  THEN [status |-> 500, body |-> "Internal server error"]
  ELSE IF get.result = Null
  THEN NotFoundResponse
  ELSE [status |-> 200,
        contentType |-> get.result.file.mimeType,
        contentLength |-> get.result.file.size,
        filename |-> get.result.file.filename,
        body |-> get.result.data]

\* the call of reader g is over and did not deliver a payload
Unavailable(g) ==
  /\ Finished(g)
  /\ \/ ~gets[g].found
     \/ gets[g].ioError
     \/ \E i \in Calls : /\ gets[g].id = puts[i].id
                          /\ gets[g].lookupAt > puts[i].expiresAt

\* C23: whatever made the id unavailable (never issued, not registered yet,
\* already purged, found expired, or its file unreadable), the call returns
\* the one value Absent and the /download route sends the one 404 response.
C23_SameNotFound ==
  \A g \in Readers :
    Unavailable(g)
    => /\ gets[g].pc = "returned"
       /\ gets[g].result = Null
       /\ gets[g].data = <<>>
       /\ gets[g].file = Null
       /\ DownloadResponse(gets[g]) = NotFoundResponse

\* a get of an id whose entry had already been purged found nothing, and
\* the route answers it with the 404 response
C23_Witness ==
  \E g \in Readers, i \in Calls :
    /\ AnsweredFor(g, i)
    /\ ~gets[g].found
    /\ puts[i].pc = "returned"
    /\ gets[g].lookupAt > puts[i].expiresAt
    /\ DownloadResponse(gets[g]) = NotFoundResponse

\* C24: the downloadUrl a cacheFile call returns is "/download/" followed by
\* the id it returns, which is the id of its entry, and nothing else; so the
\* paths of two calls are equal up to their last element, the id.
C24_DownloadPathShape ==
  \A i \in Calls :
    puts[i].pc = "returned"
    => /\ puts[i].ret.id = puts[i].id
       /\ Len(puts[i].ret.downloadUrl) = 4
       /\ SubSeq(puts[i].ret.downloadUrl, 1, 3) = <<"/", "download", "/">>
       /\ puts[i].ret.downloadUrl[4] = puts[i].id
       /\ \A j \in Calls :
            puts[j].pc = "returned"
            => ( puts[i].ret.downloadUrl = puts[j].ret.downloadUrl
                 <=> puts[i].id = puts[j].id )

\* two calls that differ in filename, mime type and payload have returned
\* download paths that differ in their last element only
C24_Witness ==
  \E i, j \in Calls :
    /\ puts[i].pc = "returned" /\ puts[j].pc = "returned"
    /\ puts[i].filename # puts[j].filename
    /\ puts[i].mimeType # puts[j].mimeType
    /\ puts[i].data # puts[j].data
    /\ SubSeq(puts[i].ret.downloadUrl, 1, 3) = SubSeq(puts[j].ret.downloadUrl, 1, 3)
    /\ puts[i].ret.downloadUrl[4] # puts[j].ret.downloadUrl[4]

\* what follows the storage root, the separator and the id in the path of
\* call p
NameTail(p) == SubSeq(p.filePath, Len(cacheDir) + 3, Len(p.filePath))

\* t is the end of sequence f
IsSuffix(t, f) ==
  Len(t) <= Len(f) /\ SubSeq(f, Len(f) - Len(t) + 1, Len(f)) = t

\* C25: the filePath of every call is the storage root, one separator, the
\* call's id, and the extension of the original filename: nothing, or the
\* last dot of the filename with what follows it, free of separators; so
\* the file lies directly under the root; and no two calls share a filePath.
C25_StoragePath ==
  \A i \in Calls :
    LET p == puts[i]
        n == Len(cacheDir)
        tail == NameTail(p)
    IN  /\ Len(p.filePath) >= n + 2
        /\ SubSeq(p.filePath, 1, n) = cacheDir
        /\ p.filePath[n + 1] = "/"
        /\ p.filePath[n + 2] = p.id
        /\ \A k \in 1..Len(tail) : tail[k] # "/"
        /\ tail # <<>>
             => /\ tail[1] = "."
                /\ \A k \in 2..Len(tail) : tail[k] # "."
                /\ IsSuffix(tail, p.filename)
        /\ tail = ExtName(p.filename)
        /\ \A j \in Calls : i # j => puts[j].filePath # p.filePath
        /\ p.pc = "returned" =>
             /\ CacheGet(cache, p.id).filePath = p.filePath
             /\ Exists(disk, p.filePath)

\* two calls have returned, one for a filename with directory components
\* that lead out of the storage root and one for a filename with two
\* extensions; both files are on disk
C25_Witness ==
  \E i, j \in Calls :
    /\ puts[i].pc = "returned" /\ puts[j].pc = "returned"
    /\ puts[i].filename = <<".", ".", "/", "etc", "/", "notes", ".", "txt">>
    /\ NameTail(puts[i]) = <<".", "txt">>
    /\ puts[j].filename = <<"archive", ".", "tar", ".", "gz">>
    /\ NameTail(puts[j]) = <<".", "gz">>
    /\ Exists(disk, puts[i].filePath)
    /\ Exists(disk, puts[j].filePath)

\* C26: the setting never changes after construction, and while writes are
\* not enabled a call of any of the eight write operations ends with the
\* error and sends nothing, no request other than a GET is ever among the
\* requests sent, and getTools lists no write tool.
C26_WriteGating ==
  [][/\ client'.enableWrite = client.enableWrite
     /\ client'.toolsEnableWrite = client.toolsEnableWrite
     /\ ~client.enableWrite
          => /\ client'.last.op \in WriteOps
                  => /\ client'.last.outcome = "threw"
                     /\ client'.sent = client.sent
             /\ \A req \in client'.sent : req.method = "GET"
             /\ client'.last.op = "getTools"
                  => client'.last.tools \cap WriteTools = {}]_vars

\* with writes not enabled, deleteShelf has just ended with the error while
\* the requests of the three read operations have gone out
C26_Witness ==
  /\ ~client.enableWrite
  /\ client.last.op = "deleteShelf"
  /\ client.last.outcome = "threw"
  /\ client.sent = {ClientRequest(op) : op \in ReadOps}

\* in this step a get of entry e whose read failed comes to its end
ReadFailedFor(e) ==
  \E g \in Readers :
    /\ gets[g].pc = "readErr"
    /\ gets[g].id = e.id
    /\ gets'[g].pc # "readErr"

\* C27: an entry with now <= expiresAt whose artifact is on disk comes out
\* of every step with the same fields and the same file content, unless the
\* step is a destroy or the end of a get of it whose read failed; and the
\* step in which a successful get returns changes neither index nor disk.
C27_UnexpiredLeftAlone ==
  [][/\ \A k \in 1..Len(cache) :
          ( /\ clock <= cache[k].expiresAt
            /\ Exists(disk, cache[k].filePath)
            /\ ~DestroyStep
            /\ ~ReadFailedFor(cache[k]) )
          => /\ CacheGet(cache', cache[k].id) = cache[k]
             /\ Exists(disk', cache[k].filePath)
             /\ disk'[cache[k].filePath] = disk[cache[k].filePath]
     /\ \A g \in Readers :
          (gets[g].pc = "readOk" /\ gets'[g].pc # "readOk")
          => /\ UNCHANGED <<cache, disk, unlinkFailed>>
             /\ gets'[g].pc = "returned"
             /\ gets'[g].result.data = gets[g].data]_vars

\* at the very instant of its expiry, after the sweep of that instant has
\* run, an entry is still in the index with its file, and a get looked up
\* at that instant has returned its payload
C27_Witness ==
  \E g \in Readers, i \in Calls :
    /\ AnsweredFor(g, i)
    /\ gets[g].result # Null
    /\ gets[g].lookupAt = clock
    /\ clock = puts[i].expiresAt
    /\ timerActive
    /\ nextSweepAt > clock
    /\ CacheHas(cache, puts[i].id)
    /\ Exists(disk, puts[i].filePath)

\* C28 as claimed: once destroy has been called the index is empty, and
\* every cacheFile call that has returned, also one that was still writing
\* when destroy ran, has no entry in the index and no artifact on disk
\* (other than one whose unlink failed); stated for non-empty payloads.
C28_TeardownFinal ==
  ~timerActive
  => /\ \A k \in 1..Len(cache) : cache[k].size = 0
     /\ \A i \in Calls :
          (puts[i].pc = "returned" /\ Len(puts[i].data) > 0)
          => /\ ~CacheHas(cache, puts[i].id)
             /\ Exists(disk, puts[i].filePath)
                  => puts[i].filePath \in unlinkFailed

\* no write and no unlink has failed so far
NoDiskFailure ==
  /\ unlinkFailed = {}
  /\ \A i \in Calls : ~puts[i].writeFailed

\* C29: while no write and no unlink has failed, every file on disk is the
\* file of a call of cacheFile whose entry is in the index or which has
\* not returned yet.
C29_NoUntrackedArtifacts ==
  NoDiskFailure
  => \A path \in DOMAIN disk :
       \E i \in Calls :
         /\ puts[i].filePath = path
         /\ \/ CacheHas(cache, puts[i].id)
            \/ puts[i].pc \in {"opening", "writing", "written"}

\* with no failure so far, one call has returned and its entry has been
\* purged together with its file, while the file of another call, still
\* writing, is on disk
C29_Witness ==
  /\ NoDiskFailure
  /\ \E i, j \in Calls :
       /\ puts[i].pc = "returned"
       /\ ~CacheHas(cache, puts[i].id)
       /\ ~Exists(disk, puts[i].filePath)
       /\ puts[j].pc = "writing"
       /\ Exists(disk, puts[j].filePath)

\* a step of POST /message
PostStep ==
  /\ sse' # sse
  /\ sse'.last.route = "message"
  /\ sse'.transports = sse.transports
  /\ Issued' = Issued
  /\ sse'.connecting = sse.connecting
  /\ sse'.closed = sse.closed

\* POST /message answers 400 without a session id and 404 for an id that is
\* not in the map, and hands the message over only for an id of the map
PostGated ==
  [][PostStep
     => LET r == sse'.last
        IN  /\ r.session = NoSessionId <=> r.status = 400
            /\ (r.session # NoSessionId /\ r.session \notin sse.transports)
                 <=> r.status = 404
            /\ sse'.delivered # sse.delivered
                 => /\ sse'.delivered = sse.delivered \cup {r.session}
                    /\ r.session \in sse.transports
                    /\ r.status = 200
            /\ sse.closed \cap sse.transports = {}]_vars

\* GET /health reports the size of the map
HealthReportsSize ==
  [][(sse'.last # sse.last /\ sse'.last.route = "health")
     => sse'.last.activeSessions = Cardinality(sse.transports)]_vars

\* C30: the transports map holds exactly the sessions that GET /sse is
\* connecting or has connected and that have not been closed.
C30_SessionRegistry ==
  sse.transports = (sse.connecting \cup sse.connected) \ sse.closed
====
